---- MODULE Spec2Model ----
(***************************************************************************)
(* A model of ContextPilot (src/src/pilot/main.py): one invocation of the  *)
(* `pilot` command line tool, from argument parsing over the project scan  *)
(* (ignore rules, tree, file collection), the token estimate and the       *)
(* choice of prompt, to the output sink.                                   *)
(*                                                                         *)
(* Strings are sequences of one-character strings, so that strip, rstrip,  *)
(* endswith, lower and the comparisons of Python act on characters.  A     *)
(* Path is the sequence of its parts below "/".                            *)
(***************************************************************************)
EXTENDS Integers, Sequences, FiniteSets, TLC

\* ------------------------------------------------------------------ bounds
\* the largest number of entries (files and directories) below the root
MaxEntries == 3
\* the tokenizer returns between 0 and MaxRawTokens tokens for a text
MaxRawTokens == 2
\* --threshold is drawn from 1..MaxThreshold
MaxThreshold == 2
\* the number of invocations on the unchanged filesystem
MaxRuns == 2
\* at most this many files lose their readability during an invocation
MaxFaults == 1

\* ----------------------------------------------------------------- strings
\* the code point of a character (Python compares strings by code point)
Ord(c) ==
    CASE c = " " -> 32 [] c = "!" -> 33 [] c = "#" -> 35 [] c = "*" -> 42
      [] c = "-" -> 45 [] c = "." -> 46 [] c = "/" -> 47 [] c = "A" -> 65
      [] c = "_" -> 95 [] c = "a" -> 97 [] c = "b" -> 98 [] c = "c" -> 99
      [] c = "d" -> 100 [] c = "e" -> 101 [] c = "f" -> 102 [] c = "g" -> 103 [] c = "h" -> 104
      [] c = "i" -> 105 [] c = "l" -> 108 [] c = "m" -> 109 [] c = "n" -> 110
      [] c = "o" -> 111 [] c = "p" -> 112 [] c = "r" -> 114 [] c = "s" -> 115
      [] c = "t" -> 116 [] c = "u" -> 117 [] c = "v" -> 118 [] c = "w" -> 119
      [] c = "x" -> 120 [] c = "y" -> 121

\* str.lower() on one character
LowerChar(c) == IF c = "A" THEN "a" ELSE c

\* str.lower()
StrLower(s) == [i \in DOMAIN s |-> LowerChar(s[i])]

\* s < t for Python strings: the first differing code point decides, a proper
\* prefix is smaller
RECURSIVE StrLess(_, _)
StrLess(s, t) ==
    IF t = << >> THEN FALSE
    ELSE IF s = << >> THEN TRUE
    ELSE IF Head(s) # Head(t) THEN Ord(Head(s)) < Ord(Head(t))
    ELSE StrLess(Tail(s), Tail(t))

IsSpace(c) == c \in { " ", "\n", "\t" }

\* str.lstrip()
RECURSIVE LStrip(_)
LStrip(s) == IF s # << >> /\ IsSpace(Head(s)) THEN LStrip(Tail(s)) ELSE s

\* str.rstrip()
RECURSIVE RStripSpace(_)
RStripSpace(s) ==
    IF s # << >> /\ IsSpace(s[Len(s)]) THEN RStripSpace(SubSeq(s, 1, Len(s) - 1)) ELSE s

\* str.strip()
Strip(s) == RStripSpace(LStrip(s))

\* str.rstrip('/')
RECURSIVE RStripSlash(_)
RStripSlash(s) ==
    IF s # << >> /\ s[Len(s)] = "/" THEN RStripSlash(SubSeq(s, 1, Len(s) - 1)) ELSE s

\* str.startswith
StartsWith(s, pre) == Len(pre) <= Len(s) /\ SubSeq(s, 1, Len(pre)) = pre

\* str.endswith
EndsWith(s, suf) ==
    Len(suf) <= Len(s) /\ SubSeq(s, Len(s) - Len(suf) + 1, Len(s)) = suf

\* ------------------------------------------------------------------- paths
\* s.split("/")
RECURSIVE SplitSlash(_, _)
SplitSlash(s, cur) ==
    IF s = << >> THEN << cur >>
    ELSE IF Head(s) = "/" THEN << cur >> \o SplitSlash(Tail(s), << >>)
    ELSE SplitSlash(Tail(s), Append(cur, Head(s)))

\* the parts pathlib keeps of a string: empty components and "." are dropped
PathParts(s) ==
    SelectSeq(SplitSlash(s, << >>), LAMBDA part : part # << >> /\ part # << "." >>)

\* root / d: an absolute d replaces root
JoinPath(root, d) ==
    IF StartsWith(d, << "/" >>) THEN PathParts(d) ELSE root \o PathParts(d)

\* Path.name: the last part, "" for the filesystem root
PathName(p) == IF p = << >> THEN << >> ELSE p[Len(p)]

\* Path.relative_to(root), for a path under root
RelativeTo(p, root) == SubSeq(p, Len(root) + 1, Len(p))

\* p < q for Paths: the tuples of parts are compared, part by part
RECURSIVE PathLess(_, _)
PathLess(p, q) ==
    IF q = << >> THEN FALSE
    ELSE IF p = << >> THEN TRUE
    ELSE IF Head(p) # Head(q) THEN StrLess(Head(p), Head(q))
    ELSE PathLess(Tail(p), Tail(q))

\* str(path) below "/": the parts joined by the separator
RECURSIVE PathStr(_)
PathStr(p) ==
    IF p = << >> THEN << >>
    ELSE IF Len(p) = 1 THEN p[1]
    ELSE p[1] \o << "/" >> \o PathStr(Tail(p))

\* ----------------------------------------------------------- configuration
DEFAULT_IGNORE_DIRS ==
    << << ".", "g", "i", "t" >>,
       << "v", "e", "n", "v" >>,
       << ".", "v", "e", "n", "v" >>,
       << "_", "_", "p", "y", "c", "a", "c", "h", "e", "_", "_" >>,
       << ".", "p", "y", "t", "e", "s", "t", "_", "c", "a", "c", "h", "e" >>,
       << ".", "r", "u", "f", "f", "_", "c", "a", "c", "h", "e" >>,
       << "b", "u", "i", "l", "d" >>,
       << "d", "i", "s", "t" >>,
       << ".", "e", "g", "g", "s" >> >>

DEFAULT_IGNORE_FILES ==
    << << "p", "i", "l", "o", "t", ".", "p", "y" >>,
       << "p", "r", "o", "m", "p", "t", ".", "t", "x", "t" >> >>

\* DEFAULT_ONLY_FROM_DIRS is None: every directory is in scope
DEFAULT_ONLY_FROM_DIRS == "None"

\* the default of -o/--output
DefaultOutput == << "p", "r", "o", "m", "p", "t", ".", "t", "x", "t" >>

\* the resolved --root, /w
Root == << << "w" >> >>

\* ------------------------------------------------- the files of the project
N_a_py == << "a", ".", "p", "y" >>
N_A_py == << "A", ".", "p", "y" >>
N_build == << "b", "u", "i", "l", "d" >>
N_c_py == << "c", ".", "p", "y" >>
N_src == << "s", "r", "c" >>
N_e_py == << "e", ".", "p", "y" >>
N_lib == << "l", "i", "b" >>
N_d_py == << "d", ".", "p", "y" >>
N_src_py == << "s", "r", "c", ".", "p", "y" >>

Dir(p) == [path |-> p, kind |-> "dir"]
File(p) == [path |-> p, kind |-> "file"]

\* the entries a project may hold, by their path below the root
Universe ==
    { File(<< N_a_py >>), File(<< N_A_py >>),
      Dir(<< N_build >>), File(<< N_build, N_c_py >>),
      Dir(<< N_src >>), File(<< N_src, N_e_py >>),
      Dir(<< N_src, N_lib >>), File(<< N_src, N_lib, N_d_py >>),
      Dir(<< N_lib >>), File(<< N_src_py >>) }

Parent(p) == SubSeq(p, 1, Len(p) - 1)

\* a filesystem holds the parent directory of each of its entries
ParentClosed(S) ==
    \A e \in S : Len(e.path) > 1 => Dir(Parent(e.path)) \in S

FileSystems ==
    { S \in SUBSET Universe : Cardinality(S) <= MaxEntries /\ ParentClosed(S) }

N_prompt_txt == << "p", "r", "o", "m", "p", "t", ".", "t", "x", "t" >>

\* the projects that hold a directory with the name of the output file, a
\* directory below it and a file in that one
NestedUniverse ==
    Universe \cup { Dir(<< N_prompt_txt >>), Dir(<< N_prompt_txt, N_lib >>),
                    File(<< N_prompt_txt, N_lib, N_d_py >>) }

NestedFileSystems ==
    { S \in SUBSET NestedUniverse : Cardinality(S) <= MaxEntries /\ ParentClosed(S) }

N_gitignore == << ".", "g", "i", "t", "i", "g", "n", "o", "r", "e" >>

\* the contents a root .gitignore may have, line by line
GitignoreContents ==
    { << << "#", " ", "x" >>, << >>, << " ", "s", "r", "c", "/", " " >>,
         << "!", "s", "r", "c" >> >>,
      << << "/", "l", "i", "b" >> >>,
      << << "s", "r", "*" >> >> }

\* the root .gitignore: absent, or a file with its lines
GitignoreFiles ==
    { [present |-> FALSE, lines |-> << >>] }
      \cup { [present |-> TRUE, lines |-> l] : l \in GitignoreContents }

\* the entries below the root: the project's, and .gitignore when there is one
AllEntries(S, gi) ==
    S \cup (IF gi.present THEN { File(<< N_gitignore >>) } ELSE { })

\* the default of --ext
DefaultExt ==
    << << ".", "p", "y" >>,
       << ".", "t", "o", "m", "l" >>,
       << ".", "y", "a", "m", "l" >>,
       << ".", "j", "s", "o", "n" >>,
       << ".", "m", "d" >>,
       << ".", "s", "h" >>,
       << ".", "t", "x", "t" >> >>

\* ------------------------------------------------------- directory listings
SeqToSet(s) == { s[i] : i \in DOMAIN s }

\* the orders in which a set can be listed
RECURSIVE Perms(_)
Perms(S) ==
    IF S = { } THEN { << >> }
    ELSE UNION { { << x >> \o s : s \in Perms(S \ { x }) } : x \in S }

\* the direct children of directory d (a path below the root)
Children(S, d) ==
    { e \in S : Len(e.path) = Len(d) + 1 /\ SubSeq(e.path, 1, Len(d)) = d }

DirsOf(S) == { << >> } \cup { e.path : e \in { x \in S : x.kind = "dir" } }

\* what the operating system may answer to the listings of one scan: for each
\* directory of D its children, in an order of the system's choosing
RECURSIVE ListingsOver(_, _)
ListingsOver(S, D) ==
    IF D = { } THEN { << >> }
    ELSE LET d == CHOOSE x \in D : TRUE
         IN { (d :> s) @@ f : s \in Perms(Children(S, d)), f \in ListingsOver(S, D \ { d }) }

Listings(S) == ListingsOver(S, DirsOf(S))

\* ------------------------------------------------------ path & git helpers
_is_ignored(p, root, ignore_dirs, ignore_files) ==
    LET rel == RelativeTo(p, root)
        is_dir_ignored ==
            \E i \in DOMAIN rel :
                rel[i] \in { PathName(ignore_dirs[k]) : k \in DOMAIN ignore_dirs }
        is_file_ignored ==
            \E k \in DOMAIN ignore_files : PathName(rel) = PathName(ignore_files[k])
    IN is_dir_ignored \/ is_file_ignored

_in_scope_dir(p, root, only_from) ==
    IF only_from = "None" \/ p = root THEN TRUE
    ELSE LET rel == RelativeTo(p, root)
             top_level_dir == IF rel # << >> THEN rel[1] ELSE << >>
         IN top_level_dir \in only_from

RECURSIVE CleanLines(_)
CleanLines(lines) ==
    IF lines = << >> THEN << >>
    ELSE LET line == Strip(Head(lines))
         IN IF line # << >> /\ ~StartsWith(line, << "#" >>)
            THEN << RStripSlash(line) >> \o CleanLines(Tail(lines))
            ELSE CleanLines(Tail(lines))

load_gitignore_patterns(gi) ==
    IF ~gi.present THEN << >> ELSE CleanLines(gi.lines)

\* -------------------------------------------------------------- core logic
\* a sort key without x.is_file(): key=lambda x: x.name.lower()
NameKeyLess(a, b) ==
    StrLess(StrLower(PathName(a.path)), StrLower(PathName(b.path)))

\* key=lambda x: (x.is_file(), x.name.lower())
TreeKeyLess(a, b) ==
    IF (a.kind = "file") # (b.kind = "file") THEN a.kind # "file"
    ELSE StrLess(StrLower(PathName(a.path)), StrLower(PathName(b.path)))

\* sorted(s, key=lambda x: (x.is_file(), x.name.lower())): Python's sort is
\* stable, entries with equal keys keep the order they had in s
SortEntries(s) ==
    LET before(i) ==
            { j \in DOMAIN s :
                TreeKeyLess(s[j], s[i]) \/ (~TreeKeyLess(s[i], s[j]) /\ j < i) }
    IN [k \in 1..Len(s) |->
            s[CHOOSE i \in DOMAIN s : Cardinality(before(i)) = k - 1]]

NoLines == [lines |-> << >>, paths |-> << >>, listed |-> { }, raised |-> FALSE]

\* build_tree.walk.  os is what the operating system answers: os.listing[d]
\* is iterdir() of d, and the directories of os.unlistable raise
\* PermissionError.  The result holds the lines appended, the path of the
\* entry each line renders, the directories listed, and whether the
\* exception left the walk.
RECURSIVE walk(_, _, _, _)
RECURSIVE walk_entries(_, _, _, _, _)
walk(dir_path, prefix, conf, os) ==
    LET rel == RelativeTo(dir_path, conf.root)
    IN IF rel \in os.unlistable
       THEN [NoLines EXCEPT !.raised = TRUE]
       ELSE LET entries == SortEntries(os.listing[rel])
                filtered_entries ==
                    SelectSeq(entries, LAMBDA e :
                        /\ ~_is_ignored(conf.root \o e.path, conf.root,
                                        conf.ignore_dirs, conf.ignore_files)
                        /\ _in_scope_dir(conf.root \o e.path, conf.root, conf.only_from))
                below == walk_entries(filtered_entries, 1, prefix, conf, os)
            IN [below EXCEPT !.listed = @ \cup { rel }]

walk_entries(filtered_entries, i, prefix, conf, os) ==
    IF i > Len(filtered_entries) THEN NoLines
    ELSE LET entry == filtered_entries[i]
             is_last == i = Len(filtered_entries)
             \* the box-drawing connectors: "corner" ends a listing, "tee" does not
             connector == IF is_last THEN "corner" ELSE "tee"
             line == [prefix |-> prefix, connector |-> connector,
                      name |-> PathName(entry.path)]
             \* four spaces, or a vertical bar and three spaces
             extension == IF is_last THEN "blank" ELSE "bar"
             sub == IF entry.kind = "dir"
                    THEN walk(conf.root \o entry.path, Append(prefix, extension), conf, os)
                    ELSE NoLines
             rest == IF sub.raised THEN NoLines
                     ELSE walk_entries(filtered_entries, i + 1, prefix, conf, os)
         IN [lines |-> << line >> \o sub.lines \o rest.lines,
             paths |-> << entry.path >> \o sub.paths \o rest.paths,
             listed |-> sub.listed \cup rest.listed,
             raised |-> sub.raised \/ rest.raised]

\* the line "." of the root
RootLine == [prefix |-> << >>, connector |-> "", name |-> << "." >>]

\* build_tree: the lines of the tree (joined by "\n" in the code)
build_tree(root, ignore_dirs, ignore_files, only_from, os) ==
    LET conf == [root |-> root, ignore_dirs |-> ignore_dirs,
                 ignore_files |-> ignore_files, only_from |-> only_from]
        w == walk(root, << >>, conf, os)
    IN [w EXCEPT !.lines = << RootLine >> \o @]

\* os.walk(root), top down: one (dirpath, filenames) per directory that can
\* be listed; a directory whose listing fails is skipped without an error,
\* and nothing is pruned from the directories to visit
RECURSIVE os_walk(_, _, _)
RECURSIVE os_walk_dirs(_, _, _, _)
os_walk(root, top, os) ==
    IF top \in os.unlistable THEN << >>
    ELSE LET entries == os.listing[top]
             dirs == SelectSeq(entries, LAMBDA e : e.kind = "dir")
             nondirs == SelectSeq(entries, LAMBDA e : e.kind # "dir")
         IN << [dirpath |-> root \o top,
                filenames |-> [k \in DOMAIN nondirs |-> PathName(nondirs[k].path)]] >>
            \o os_walk_dirs(root, dirs, 1, os)

os_walk_dirs(root, dirs, i, os) ==
    IF i > Len(dirs) THEN << >>
    ELSE os_walk(root, dirs[i].path, os) \o os_walk_dirs(root, dirs, i + 1, os)

\* the body of the loop of collect_project_files over os.walk
RECURSIVE collect_visits(_, _, _, _, _, _)
collect_visits(visits, root, ignore_dirs, ignore_files, only_from, extensions) ==
    IF visits = << >> THEN << >>
    ELSE LET d_path == Head(visits).dirpath
             filenames == Head(visits).filenames
             matching ==
                 SelectSeq(filenames, LAMBDA fname :
                     /\ \E k \in DOMAIN extensions : EndsWith(fname, extensions[k])
                     /\ ~_is_ignored(Append(d_path, fname), root, ignore_dirs, ignore_files))
             here == IF \/ _is_ignored(d_path, root, ignore_dirs, ignore_files)
                        \/ ~_in_scope_dir(d_path, root, only_from)
                     THEN << >>
                     ELSE [k \in DOMAIN matching |-> Append(d_path, matching[k])]
         IN here \o collect_visits(Tail(visits), root, ignore_dirs, ignore_files,
                                   only_from, extensions)

\* project_files returned as collected, without the sort
UnsortedPaths(project_files) == project_files

\* sorted(project_files): a stable sort by the order of Paths
SortPaths(project_files) ==
    LET s == project_files
        before(i) ==
            { j \in DOMAIN s :
                PathLess(s[j], s[i]) \/ (~PathLess(s[i], s[j]) /\ j < i) }
    IN [k \in 1..Len(s) |->
            s[CHOOSE i \in DOMAIN s : Cardinality(before(i)) = k - 1]]

collect_project_files(root, ignore_dirs, ignore_files, only_from, extensions, os) ==
    LET visits == os_walk(root, << >>, os)
    IN [files |-> SortPaths(collect_visits(visits, root, ignore_dirs, ignore_files,
                                           only_from, extensions)),
        listed |-> { RelativeTo(visits[k].dirpath, root) : k \in DOMAIN visits }]

\* --------------------------------------------------------- prompt builders
\* the exceptions Path.read_text raises in this model
ReadErrors == { "PermissionError", "FileNotFoundError", "UnicodeDecodeError" }

\* fpath.read_text(encoding="utf-8"): "ok", or the exception raised.
\* unreadable holds the files that lost their readability, with the exception
\* a read of each raises
read_text(fpath, root, S, unreadable) ==
    LET rel == RelativeTo(fpath, root)
    IN IF \E u \in unreadable : u.path = fpath
       THEN (CHOOSE u \in unreadable : u.path = fpath).err
       ELSE IF Dir(rel) \in S \/ rel = << >> THEN "IsADirectoryError"
       ELSE IF File(rel) \notin S THEN "FileNotFoundError"
       ELSE "ok"

\* Path.is_dir()
is_dir(fpath, root, S) ==
    LET rel == RelativeTo(fpath, root) IN Dir(rel) \in S \/ rel = << >>

\* except UnicodeDecodeError alone, as make_full_context_prompt_old has it
OnlyDecodeErrorCaught(err) == err = "UnicodeDecodeError"

\* except (UnicodeDecodeError, IOError): IOError is OSError, the base of
\* PermissionError, FileNotFoundError and IsADirectoryError
FullContextCatches(err) ==
    err \in { "UnicodeDecodeError", "PermissionError", "FileNotFoundError",
              "IsADirectoryError" }

\* except (UnicodeDecodeError, FileNotFoundError)
FilesCatches(err) == err \in { "UnicodeDecodeError", "FileNotFoundError" }

NoBlocks == [blocks |-> << >>, raised |-> FALSE]

\* the loop of make_full_context_prompt: one block per file that is read
RECURSIVE full_context_blocks(_, _, _, _)
full_context_blocks(files, root, S, unreadable) ==
    IF files = << >> THEN NoBlocks
    ELSE LET fpath == Head(files)
             res == read_text(fpath, root, S, unreadable)
             rest == full_context_blocks(Tail(files), root, S, unreadable)
         IN IF is_dir(fpath, root, S) THEN rest
            ELSE IF res = "ok"
            THEN [rest EXCEPT !.blocks =
                     << [rel_path |-> RelativeTo(fpath, root), body |-> "content"] >> \o @]
            ELSE IF FullContextCatches(res) THEN rest
            ELSE [NoBlocks EXCEPT !.raised = TRUE]

make_full_context_prompt(task, tree, files, root, S, unreadable) ==
    LET b == full_context_blocks(files, root, S, unreadable)
    IN [kind |-> "full_context", task |-> task, tree |-> tree,
        blocks |-> b.blocks, raised |-> b.raised]

make_discovery_prompt(task, tree) ==
    [kind |-> "discovery", task |-> task, tree |-> tree,
     blocks |-> << >>, raised |-> FALSE]

\* the loop of make_files_prompt: a block per file, an error block for a
\* file whose read raises one of the two exceptions caught
RECURSIVE files_blocks(_, _, _, _)
files_blocks(files, root, S, unreadable) ==
    IF files = << >> THEN NoBlocks
    ELSE LET fpath == Head(files)
             rel_path == RelativeTo(fpath, root)
             res == read_text(fpath, root, S, unreadable)
             rest == files_blocks(Tail(files), root, S, unreadable)
         IN IF res = "ok"
            THEN [rest EXCEPT !.blocks =
                     << [rel_path |-> rel_path, body |-> "content"] >> \o @]
            ELSE IF FilesCatches(res)
            THEN [rest EXCEPT !.blocks =
                     << [rel_path |-> rel_path, body |-> "error"] >> \o @]
            ELSE [NoBlocks EXCEPT !.raised = TRUE]

make_files_prompt(files, root, S, unreadable) ==
    LET b == files_blocks(files, root, S, unreadable)
    IN [kind |-> "files", task |-> "", tree |-> << >>,
        blocks |-> b.blocks, raised |-> b.raised]

\* ---------------------------------------------------------------- git mode
\* what a `git diff` command may print: nothing, blank text, a diff
DiffOutputs == { << >>, << " ", "\n" >>, << "d", "\n" >> }

\* how subprocess.check_output may end: it returns the output, raises
\* CalledProcessError (the command exited non-zero, out being what it had
\* printed) or raises FileNotFoundError (there is no git executable)
GitOutcomes ==
    [kind : { "output", "CalledProcessError" }, out : DiffOutputs]
        \cup { [kind |-> "FileNotFoundError", out |-> << >>] }

\* diff_cmd of make_git_prompt
diff_cmd == << "git", "diff", "--no-color", "--unified=3" >>

\* _run_git: the output of the command; "" after CalledProcessError;
\* sys.exit(1) after FileNotFoundError
_run_git(outcome) ==
    [exited |-> outcome.kind = "FileNotFoundError",
     out |-> IF outcome.kind = "output" THEN outcome.out ELSE << >>]

\* the prompt make_git_prompt returns when there is nothing to describe
NoChangesPrompt == [kind |-> "literal", text |-> "No Git changes detected."]

\* the test with `not diff` for `not diff.strip()`
no_changes_unstripped(diff) == diff = << >>

\* make_git_prompt: `not diff.strip()`
no_changes(diff) == Strip(diff) = << >>

\* make_git_prompt(staged_only), cached and worktree being how the two git
\* commands end when they are run
make_git_prompt(staged_only, cached, worktree) ==
    LET first == _run_git(cached)
        second == _run_git(worktree)
        run1 == [cmd |-> diff_cmd \o << "--cached" >>, outcome |-> cached]
        run2 == [cmd |-> diff_cmd, outcome |-> worktree]
        diff == IF staged_only THEN first.out ELSE first.out \o second.out
    IN IF first.exited
       THEN [exited |-> TRUE, runs |-> << run1 >>, prompt |-> [kind |-> "none"]]
       ELSE IF ~staged_only /\ second.exited
       THEN [exited |-> TRUE, runs |-> << run1, run2 >>, prompt |-> [kind |-> "none"]]
       ELSE [exited |-> FALSE,
             runs |-> IF staged_only THEN << run1 >> ELSE << run1, run2 >>,
             prompt |-> IF no_changes(diff) THEN NoChangesPrompt
                        ELSE [kind |-> "git", diff |-> diff]]

\* count_tokens: int(len(encoding.encode(text)) * 1.28), raw being the
\* number of tokens the tokenizer returns
count_tokens(raw) == (raw * 128) \div 100

\* the test of line 435 with <= for <
fits_context_or_equal(estimated_token_count, threshold) ==
    estimated_token_count <= threshold

\* the test of line 435
fits_context(estimated_token_count, threshold) == estimated_token_count < threshold

\* ------------------------------------------------------------------- state
VARIABLES
    fs,                     \* the entries of the project below the root
    gitignore,              \* the root .gitignore
    unlistable,             \* directories whose listing raises PermissionError
    unreadable,             \* files whose read raises, with the exception
    args,                   \* the parsed command line
    pc,                     \* where main() is
    ignore_dirs,            \* main's ignore_dirs
    ignore_files,           \* main's ignore_files
    tree,                   \* the lines of build_tree's result
    rendered,               \* the path of the entry each line of tree renders
    tree_listed,            \* the directories build_tree listed
    project_files,          \* collect_project_files's result
    walk_listed,            \* the directories os.walk listed
    estimated_token_count,  \* main's estimated_token_count
    prompt,                 \* main's prompt
    sinks,                  \* the sinks the prompt went to
    runs,                   \* the number of the invocation
    prev,                   \* tree and project_files of the invocation before
    git_runs                \* the git commands run, each with how it ended

vars == << fs, gitignore, unlistable, unreadable, args, pc, ignore_dirs,
           ignore_files, tree, rendered, tree_listed, project_files,
           walk_listed, estimated_token_count, prompt, sinks, runs, prev,
           git_runs >>

env == << fs, gitignore >>
scan == << tree, rendered, tree_listed, project_files, walk_listed >>

\* the default of --threshold
DefaultThreshold == 1000000

NoArgs == [mode |-> "none", task |-> "", threshold |-> DefaultThreshold,
           copy |-> FALSE, ext |-> << >>, files |-> << >>, output |-> DefaultOutput,
           staged |-> FALSE, topic |-> ""]

NoPrompt == [kind |-> "none", task |-> "", tree |-> << >>, blocks |-> << >>,
             raised |-> FALSE]

\* the paths `pilot files` may name, relative to the root
NamedPaths == { << N_a_py >>, << N_src >>, << N_src, N_e_py >> }

\* the largest number of paths `pilot files` is given
MaxNamed == 2

FilesArgs == UNION { [1..n -> NamedPaths] : n \in 1..MaxNamed }

TheOs(listing) == [listing |-> listing, unlistable |-> unlistable]

Init ==
    /\ fs \in FileSystems
    /\ gitignore \in GitignoreFiles
    /\ unlistable = { }
    /\ unreadable = { }
    /\ args = NoArgs
    /\ pc = "start"
    /\ ignore_dirs = << >>
    /\ ignore_files = << >>
    /\ tree = << >>
    /\ rendered = << >>
    /\ tree_listed = { }
    /\ project_files = << >>
    /\ walk_listed = { }
    /\ estimated_token_count = 0
    /\ prompt = NoPrompt
    /\ sinks = { }
    /\ runs = 1
    /\ prev = [tree |-> << >>, files |-> << >>]
    /\ git_runs = << >>

\* the state after construction, the project being any of NestedFileSystems
InitNested ==
    /\ fs \in NestedFileSystems
    /\ gitignore \in GitignoreFiles
    /\ unlistable = { }
    /\ unreadable = { }
    /\ args = NoArgs
    /\ pc = "start"
    /\ ignore_dirs = << >>
    /\ ignore_files = << >>
    /\ tree = << >>
    /\ rendered = << >>
    /\ tree_listed = { }
    /\ project_files = << >>
    /\ walk_listed = { }
    /\ estimated_token_count = 0
    /\ prompt = NoPrompt
    /\ sinks = { }
    /\ runs = 1
    /\ prev = [tree |-> << >>, files |-> << >>]
    /\ git_runs = << >>

\* parser.parse_args() for `pilot [--threshold N] assist <task> [--ext ...] [-c]`
ParseAssist ==
    /\ pc = "start"
    /\ \E threshold \in 1..MaxThreshold, copy \in BOOLEAN :
          args' = [NoArgs EXCEPT !.mode = "assist", !.task = "task",
                                 !.threshold = threshold, !.copy = copy,
                                 !.ext = DefaultExt]
    /\ pc' = "setup"
    /\ UNCHANGED << env, git_runs, unlistable, unreadable, ignore_dirs, ignore_files, scan,
                    estimated_token_count, prompt, sinks, runs, prev >>

\* parser.parse_args() for `pilot files <path...> [-c]`
ParseFiles ==
    /\ pc = "start"
    /\ \E files \in FilesArgs, copy \in BOOLEAN :
          args' = [NoArgs EXCEPT !.mode = "files", !.files = files, !.copy = copy]
    /\ pc' = "setup"
    /\ UNCHANGED << env, git_runs, unlistable, unreadable, ignore_dirs, ignore_files, scan,
                    estimated_token_count, prompt, sinks, runs, prev >>

\* main, "Shared Setup"
SharedSetup ==
    /\ pc = "setup"
    /\ LET gitignore_patterns == load_gitignore_patterns(gitignore)
           ignore_dirs_names == DEFAULT_IGNORE_DIRS \o gitignore_patterns
           ignore_files_names ==
               DEFAULT_IGNORE_FILES \o << PathName(PathParts(args.output)) >>
       IN /\ ignore_dirs' =
                [k \in DOMAIN ignore_dirs_names |-> JoinPath(Root, ignore_dirs_names[k])]
          /\ ignore_files' =
                [k \in DOMAIN ignore_files_names |-> JoinPath(Root, ignore_files_names[k])]
    /\ pc' = IF args.mode = "assist" THEN "scan"
             ELSE IF args.mode = "files" THEN "files" ELSE "git"
    /\ UNCHANGED << env, git_runs, unlistable, unreadable, args, scan,
                    estimated_token_count, prompt, sinks, runs, prev >>

\* the environment: a directory of the project loses its read permission
\* before the scan
DirPermissionDenied ==
    /\ pc = "scan"
    /\ runs = 1
    /\ Cardinality(unlistable) < MaxFaults
    /\ \E d \in DirsOf(fs) \ { << >> } : unlistable' = unlistable \cup { d }
    /\ UNCHANGED << env, git_runs, unreadable, args, pc, ignore_dirs, ignore_files, scan,
                    estimated_token_count, prompt, sinks, runs, prev >>

\* main: tree = build_tree(...); an exception leaving build_tree ends main
BuildTree ==
    /\ pc = "scan"
    /\ \E r \in { build_tree(Root, ignore_dirs, ignore_files,
                            DEFAULT_ONLY_FROM_DIRS, TheOs(listing)) :
                     listing \in Listings(AllEntries(fs, gitignore)) } :
             /\ tree_listed' = r.listed
             /\ IF r.raised
                THEN /\ pc' = "crashed"
                     /\ UNCHANGED << tree, rendered >>
                ELSE /\ pc' = "tree"
                     /\ tree' = r.lines
                     /\ rendered' = r.paths
    /\ UNCHANGED << env, git_runs, unlistable, unreadable, args, ignore_dirs, ignore_files,
                    project_files, walk_listed, estimated_token_count, prompt,
                    sinks, runs, prev >>

\* main: project_files = collect_project_files(...)
CollectProjectFiles ==
    /\ pc = "tree"
    /\ \E r \in { collect_project_files(Root, ignore_dirs, ignore_files,
                                       DEFAULT_ONLY_FROM_DIRS, args.ext, TheOs(listing)) :
                     listing \in Listings(AllEntries(fs, gitignore)) } :
             /\ project_files' = r.files
             /\ walk_listed' = r.listed
    /\ pc' = "collected"
    /\ UNCHANGED << env, git_runs, unlistable, unreadable, args, ignore_dirs, ignore_files,
                    tree, rendered, tree_listed, estimated_token_count, prompt,
                    sinks, runs, prev >>

\* the environment: a file that was collected loses its readability before
\* its content is read
FileBecomesUnreadable ==
    /\ pc = "collected"
    /\ runs = 1
    /\ Cardinality(unreadable) < MaxFaults
    /\ \E err \in ReadErrors, k \in DOMAIN project_files :
          /\ \A u \in unreadable : u.path # project_files[k]
          /\ unreadable' = unreadable \cup { [path |-> project_files[k], err |-> err] }
    /\ UNCHANGED << env, git_runs, unlistable, args, pc, ignore_dirs, ignore_files, scan,
                    estimated_token_count, prompt, sinks, runs, prev >>

\* the environment: a file named on the command line loses its readability
\* before its content is read
NamedFileBecomesUnreadable ==
    /\ pc = "files"
    /\ runs = 1
    /\ Cardinality(unreadable) < MaxFaults
    /\ \E err \in ReadErrors, k \in DOMAIN args.files :
          /\ File(args.files[k]) \in fs
          /\ \A u \in unreadable : u.path # Root \o args.files[k]
          /\ unreadable' = unreadable \cup { [path |-> Root \o args.files[k], err |-> err] }
    /\ UNCHANGED << env, git_runs, unlistable, args, pc, ignore_dirs, ignore_files, scan,
                    estimated_token_count, prompt, sinks, runs, prev >>

\* main: full_context is read (every exception of a read is passed over) and
\* its tokens are counted
EstimateTokens ==
    /\ pc = "collected"
    /\ \E raw \in 0..MaxRawTokens : estimated_token_count' = count_tokens(raw)
    /\ pc' = "estimated"
    /\ UNCHANGED << env, git_runs, unlistable, unreadable, args, ignore_dirs, ignore_files,
                    scan, prompt, sinks, runs, prev >>

\* main: the choice between the two prompts of assist
BuildPrompt ==
    /\ pc = "estimated"
    /\ LET p == IF fits_context(estimated_token_count, args.threshold)
                THEN make_full_context_prompt(args.task, tree, project_files, Root,
                                              AllEntries(fs, gitignore), unreadable)
                ELSE make_discovery_prompt(args.task, tree)
       IN IF p.raised
          THEN pc' = "crashed" /\ UNCHANGED prompt
          ELSE pc' = "prompt" /\ prompt' = p
    /\ UNCHANGED << env, git_runs, unlistable, unreadable, args, ignore_dirs, ignore_files,
                    scan, estimated_token_count, sinks, runs, prev >>

\* main, mode "files"
FilesPrompt ==
    /\ pc = "files"
    /\ LET explicit_files == [k \in DOMAIN args.files |-> Root \o args.files[k]]
           p == make_files_prompt(explicit_files, Root,
                                  AllEntries(fs, gitignore), unreadable)
       IN IF p.raised
          THEN pc' = "crashed" /\ UNCHANGED prompt
          ELSE pc' = "prompt" /\ prompt' = p
    /\ UNCHANGED << env, git_runs, unlistable, unreadable, args, ignore_dirs, ignore_files,
                    scan, estimated_token_count, sinks, runs, prev >>

\* parser.parse_args() for `pilot git [--staged] [-c]`
ParseGit ==
    /\ pc = "start"
    /\ \E staged \in BOOLEAN, copy \in BOOLEAN :
          args' = [NoArgs EXCEPT !.mode = "git", !.staged = staged, !.copy = copy]
    /\ pc' = "setup"
    /\ UNCHANGED << env, git_runs, unlistable, unreadable, ignore_dirs, ignore_files,
                    scan, estimated_token_count, prompt, sinks, runs, prev >>

\* main, "Mode: git": prompt = make_git_prompt(staged_only=args.staged);
\* sys.exit(1) in _run_git ends main with exit status 1
GitPrompt ==
    /\ pc = "git"
    /\ \E r \in { make_git_prompt(args.staged, cached, worktree) :
                     cached \in GitOutcomes, worktree \in GitOutcomes } :
          /\ git_runs' = r.runs
          /\ IF r.exited
                THEN pc' = "sys_exit_1" /\ UNCHANGED prompt
                ELSE pc' = "prompt" /\ prompt' = r.prompt
    /\ UNCHANGED << env, unlistable, unreadable, args, ignore_dirs, ignore_files,
                    scan, estimated_token_count, sinks, runs, prev >>

\* the words that may follow `pilot help`
HelpTopics == { "", "assist", "files", "git" }

\* parser.parse_args() for `pilot help [assist|files|git]`: the subparsers
\* are assist, files and git, so the required positional `mode` rejects the
\* word help; argparse prints the usage and the error to stderr and exits
\* with status 2.  args keeps the words of the command line.
ParseHelp ==
    /\ pc = "start"
    /\ \E topic \in HelpTopics :
          args' = [NoArgs EXCEPT !.mode = "help", !.topic = topic]
    /\ pc' = "usage_error"
    /\ UNCHANGED << env, git_runs, unlistable, unreadable, ignore_dirs, ignore_files,
                    scan, estimated_token_count, prompt, sinks, runs, prev >>

\* "Output" with the two branches of the if/else both taken
OutputBoth ==
    /\ pc = "prompt"
    /\ sinks' = { "clipboard", "file" }
    /\ pc' = "done"
    /\ UNCHANGED << env, git_runs, unlistable, unreadable, args, ignore_dirs,
                    ignore_files, scan, estimated_token_count, prompt, runs, prev >>

\* main, "Output"
Output ==
    /\ pc = "prompt"
    /\ sinks' = IF args.copy THEN { "clipboard" } ELSE { "file" }
    /\ pc' = "done"
    /\ UNCHANGED << env, git_runs, unlistable, unreadable, args, ignore_dirs, ignore_files,
                    scan, estimated_token_count, prompt, runs, prev >>

\* the same command line is run again on the unchanged project (the output
\* of the run before lies outside the root or on the clipboard)
Rerun ==
    /\ pc = "done"
    /\ runs < MaxRuns
    /\ unlistable = { } /\ unreadable = { }
    /\ runs' = runs + 1
    /\ prev' = [tree |-> tree, files |-> project_files]
    /\ pc' = "setup"
    /\ ignore_dirs' = << >>
    /\ ignore_files' = << >>
    /\ tree' = << >>
    /\ rendered' = << >>
    /\ tree_listed' = { }
    /\ project_files' = << >>
    /\ walk_listed' = { }
    /\ estimated_token_count' = 0
    /\ prompt' = NoPrompt
    /\ sinks' = { }
    /\ UNCHANGED << env, git_runs, unlistable, unreadable, args >>

\* the steps of `pilot assist`
NextAssist ==
    \/ ParseAssist
    \/ SharedSetup
    \/ DirPermissionDenied
    \/ BuildTree
    \/ CollectProjectFiles
    \/ FileBecomesUnreadable
    \/ EstimateTokens
    \/ BuildPrompt
    \/ Output
    \/ Rerun

\* the steps of `pilot files`
NextFiles ==
    \/ ParseFiles
    \/ SharedSetup
    \/ NamedFileBecomesUnreadable
    \/ FilesPrompt
    \/ Output

\* the steps of `pilot git`
NextGit ==
    \/ ParseGit
    \/ SharedSetup
    \/ GitPrompt
    \/ Output

\* the steps of `pilot help`
NextHelp == ParseHelp

\* the steps of every invocation
Next ==
    \/ ParseAssist
    \/ ParseFiles
    \/ ParseGit
    \/ ParseHelp
    \/ SharedSetup
    \/ DirPermissionDenied
    \/ BuildTree
    \/ CollectProjectFiles
    \/ FileBecomesUnreadable
    \/ EstimateTokens
    \/ BuildPrompt
    \/ NamedFileBecomesUnreadable
    \/ FilesPrompt
    \/ GitPrompt
    \/ Output
    \/ Rerun

Spec == Init /\ [][Next]_vars

\* the invocations of `pilot assist`
SpecAssist == Init /\ [][NextAssist]_vars

\* the invocations of `pilot files`
SpecFiles == Init /\ [][NextFiles]_vars

\* the invocations of `pilot git`
SpecGit == Init /\ [][NextGit]_vars

\* the invocations of `pilot help`
SpecHelp == Init /\ [][NextHelp]_vars

\* the steps of `pilot assist` up to the end of the two passes, every
\* directory of the project being listable
NextScan ==
    \/ ParseAssist
    \/ SharedSetup
    \/ BuildTree
    \/ CollectProjectFiles

\* the tree pass and the file-collection pass of `pilot assist`
SpecScan == InitNested /\ [][NextScan]_vars

\* the steps of one invocation, of any mode, from its command line to its end
NextInvocation ==
    \/ ParseAssist
    \/ ParseFiles
    \/ ParseGit
    \/ ParseHelp
    \/ SharedSetup
    \/ DirPermissionDenied
    \/ BuildTree
    \/ CollectProjectFiles
    \/ FileBecomesUnreadable
    \/ EstimateTokens
    \/ BuildPrompt
    \/ NamedFileBecomesUnreadable
    \/ FilesPrompt
    \/ GitPrompt
    \/ Output

\* single invocations of every mode
SpecInvocation == Init /\ [][NextInvocation]_vars

\* the exit status of the process: 0 when main returns, 1 after an uncaught
\* exception and after sys.exit(1), 2 after an argparse error, -1 while main
\* runs
exit_status ==
    CASE pc = "done" -> 0
      [] pc \in { "crashed", "sys_exit_1" } -> 1
      [] pc = "usage_error" -> 2
      [] OTHER -> -1

\* ------------------------------------------------------------------ claims
Entries == AllEntries(fs, gitignore)

AfterTree == pc \in { "tree", "collected", "estimated", "prompt", "done" }
AfterCollect == pc \in { "collected", "estimated", "prompt", "done" }
AfterPrompt == pc \in { "prompt", "done" }

RenderedSet == SeqToSet(rendered)
CollectedSet == { RelativeTo(project_files[k], Root) : k \in DOMAIN project_files }

\* C1: in assist the Full-Context prompt is built if and only if the
\* estimated token count is below the threshold; at the threshold the
\* Discovery prompt is built, one below it the Full-Context prompt.
C1_ThresholdRule ==
    (args.mode = "assist" /\ AfterPrompt) =>
        /\ prompt.kind \in { "full_context", "discovery" }
        /\ prompt.kind = "full_context" <=> estimated_token_count < args.threshold
        /\ estimated_token_count = args.threshold => prompt.kind = "discovery"
        /\ estimated_token_count = args.threshold - 1 => prompt.kind = "full_context"

\* the estimate equals the threshold and the Discovery prompt was built
C1_AtThreshold ==
    /\ args.mode = "assist" /\ pc = "prompt"
    /\ estimated_token_count = args.threshold
    /\ prompt.kind = "discovery"

\* The gitignore rules the spec refers to.  A "*" matches any run of
\* characters other than the separator.
RECURSIVE GlobMatch(_, _)
GlobMatch(pat, s) ==
    IF pat = << >> THEN s = << >>
    ELSE IF Head(pat) = "*"
    THEN \/ GlobMatch(Tail(pat), s)
         \/ s # << >> /\ Head(s) # "/" /\ GlobMatch(pat, Tail(s))
    ELSE s # << >> /\ Head(s) = Head(pat) /\ GlobMatch(Tail(pat), Tail(s))

IsNegation(line) == StartsWith(line, << "!" >>)
RuleBody(line) == IF IsNegation(line) THEN Tail(line) ELSE line
IsAnchored(body) == \E i \in DOMAIN body : body[i] = "/"
Unslashed(body) == IF StartsWith(body, << "/" >>) THEN Tail(body) ELSE body

\* the rule matches the path rel itself: an anchored rule from the root, any
\* other rule by the name of rel at whatever depth
RuleMatchesPath(body, rel) ==
    IF IsAnchored(body) THEN GlobMatch(Unslashed(body), PathStr(rel))
    ELSE GlobMatch(body, PathName(rel))

\* the lines of .gitignore that are rules
Rules == load_gitignore_patterns(gitignore)

\* rel matches a configured ignore rule: a default directory name, or a line
\* of .gitignore that is no negation
MatchesIgnoreRule(rel) ==
    \/ PathName(rel) \in SeqToSet(DEFAULT_IGNORE_DIRS)
    \/ \E k \in DOMAIN Rules :
          ~IsNegation(Rules[k]) /\ RuleMatchesPath(RuleBody(Rules[k]), rel)

EntryDirs == { e \in Entries : e.kind = "dir" }

\* the proper ancestors of rel below the root
Ancestors(rel) == { SubSeq(rel, 1, n) : n \in 1..(Len(rel) - 1) }

\* C2: a directory that matches a configured ignore rule (a default name or
\* a line of the root .gitignore) is no entry of the tree, and no file
\* beneath it is collected.
C2_IgnoredDirAbsent ==
    \A d \in EntryDirs :
        MatchesIgnoreRule(d.path) =>
            /\ AfterTree => d.path \notin RenderedSet
            /\ AfterCollect => \A f \in CollectedSet : d.path \notin Ancestors(f)

\* the directory d is one the ignore check rejects
Rejected(d) == d # << >> /\ _is_ignored(Root \o d, Root, ignore_dirs, ignore_files)

\* C3: neither build_tree nor collect_project_files lists the contents of a
\* directory the ignore check rejects.
C3_NoDescent ==
    \A d \in tree_listed \cup walk_listed : ~Rejected(d)

\* the order of the full path strings
StrSorted(paths) ==
    \A i, j \in DOMAIN paths :
        i < j => ~StrLess(PathStr(paths[j]), PathStr(paths[i]))

LowContinuation(p, q) ==
    \E n \in 1..(Len(p) - 1) :
        /\ n <= Len(q)
        /\ SubSeq(p, 1, n - 1) = SubSeq(q, 1, n - 1)
        /\ Len(p[n]) < Len(q[n])
        /\ SubSeq(q[n], 1, Len(p[n])) = p[n]
        /\ Ord(q[n][Len(p[n]) + 1]) < Ord("/")

C5_Deterministic ==
    runs > 1 =>
        /\ AfterTree => tree = prev.tree
        /\ AfterCollect => project_files = prev.files

Unreadable == { u.path : u \in unreadable }

BlockPaths(p) == [k \in DOMAIN p.blocks |-> Root \o p.blocks[k].rel_path]

\* C6 as stated: when a collected file cannot be read, the prompt of assist
\* holds a visible placeholder for it.
C6_Placeholder ==
    (args.mode = "assist" /\ pc = "done") =>
        \A f \in Unreadable :
            \E k \in DOMAIN prompt.blocks :
                Root \o prompt.blocks[k].rel_path = f /\ prompt.blocks[k].body = "error"

\* C6 amended: when a collected file cannot be read, assist does not abort:
\* it goes on to emit a prompt, in which the file is passed over -- the
\* Full-Context prompt holds the blocks of the readable files, in order, and
\* nothing for the unreadable one.
C6_UnreadableSkipped ==
    (args.mode = "assist" /\ unreadable # { }) =>
        /\ pc \in { "collected", "estimated", "prompt", "done" }
        /\ AfterPrompt =>
              /\ prompt.kind \in { "full_context", "discovery" }
              /\ prompt.kind = "discovery" => prompt.blocks = << >>
              /\ prompt.kind = "full_context" =>
                    /\ BlockPaths(prompt) =
                          SelectSeq(project_files, LAMBDA f : f \notin Unreadable)
                    /\ \A k \in DOMAIN prompt.blocks : prompt.blocks[k].body = "content"
        /\ pc = "done" => sinks # { }

\* a collected file lost its read permission and the Full-Context prompt went out
C6_UnreadableDone ==
    /\ args.mode = "assist" /\ pc = "done"
    /\ prompt.kind = "full_context"
    /\ \E u \in unreadable : u.err = "PermissionError"

\* C7: in files, every named file that cannot be read gets an error block
\* and the command never fails: one block per named file, in order.
C7_FilesNeverFail ==
    args.mode = "files" =>
        /\ pc # "crashed"
        /\ AfterPrompt =>
              /\ BlockPaths(prompt) = [k \in DOMAIN args.files |-> Root \o args.files[k]]
              /\ \A k \in DOMAIN prompt.blocks :
                    prompt.blocks[k].body = "error" <=>
                        read_text(Root \o args.files[k], Root, Entries, unreadable) # "ok"

\* the entries build_tree reaches: below no rejected and no unlistable directory
Reachable(e) ==
    /\ ~Rejected(e.path)
    /\ \A a \in Ancestors(e.path) : a \notin unlistable

\* C8: a subdirectory whose listing raises a permission error is taken as
\* empty: assist is not aborted and the tree holds every other reachable
\* entry that is not ignored.
C8_UnlistableSkipped ==
    args.mode = "assist" =>
        /\ pc # "crashed"
        /\ AfterTree => RenderedSet = { e.path : e \in { x \in Entries : Reachable(x) } }

\* the ignore check of the code with the anchored rules left out
IgnoredByOtherRules(rel) ==
    LET others == SelectSeq(Rules, LAMBDA line : ~IsAnchored(line))
        names == DEFAULT_IGNORE_DIRS \o others
    IN _is_ignored(Root \o rel, Root,
                   [k \in DOMAIN names |-> JoinPath(Root, names[k])], ignore_files)

\* an anchored rule matches rel or a directory above it, from the root
AnchoredRuleApplies(rel) ==
    \E k \in DOMAIN Rules :
        /\ IsAnchored(Rules[k])
        /\ \E n \in 1..Len(rel) : RuleMatchesPath(Rules[k], SubSeq(rel, 1, n))

\* C9: an anchored rule ignores a path only when it matches from the root:
\* an entry of a listed directory that is missing from the tree is ignored
\* by another rule or matched from the root.
C9_AnchoredFromRoot ==
    AfterTree =>
        \A e \in Entries :
            (Parent(e.path) \in tree_listed /\ e.path \notin RenderedSet) =>
                IgnoredByOtherRules(e.path) \/ AnchoredRuleApplies(e.path)

\* the last rule of .gitignore that matches rel is a negation
Reincluded(rel) ==
    \E k \in DOMAIN Rules :
        /\ IsNegation(Rules[k])
        /\ RuleMatchesPath(RuleBody(Rules[k]), rel)
        /\ \E j \in 1..(k - 1) :
              ~IsNegation(Rules[j]) /\ RuleMatchesPath(RuleBody(Rules[j]), rel)
        /\ \A j \in (k + 1)..Len(Rules) : ~RuleMatchesPath(RuleBody(Rules[j]), rel)

\* C10: a path a "!" line re-includes after an earlier matching rule is not
\* ignored: it is in the tree, and the files beneath it with an eligible
\* extension are collected.
C10_NegationReincludes ==
    \A e \in Entries :
        (Len(e.path) = 1 /\ Reincluded(e.path)) =>
            /\ AfterTree => e.path \in RenderedSet
            /\ AfterCollect =>
                  \A f \in Entries :
                      (/\ f.kind = "file"
                       /\ Parent(f.path) = e.path
                       /\ \E k \in DOMAIN args.ext : EndsWith(PathName(f.path), args.ext[k]))
                          => f.path \in CollectedSet


\* the kind of the entry a rendered line stands for
KindOf(p) == (CHOOSE e \in Entries : e.path = p).kind

\* C11: in the rendered tree the children of one directory are listed with
\* every directory before every file and, within the directories and within
\* the files, in ascending order of the lower-cased name (equal lower-cased
\* names in either order); the entries left after filtering keep that order.
C11_DirsFirstSorted ==
    AfterTree =>
        \A i \in DOMAIN rendered : \A j \in DOMAIN rendered :
            (i < j /\ Parent(rendered[i]) = Parent(rendered[j])) =>
                /\ ~(KindOf(rendered[i]) = "file" /\ KindOf(rendered[j]) = "dir")
                /\ KindOf(rendered[i]) = KindOf(rendered[j]) =>
                       ~StrLess(StrLower(PathName(rendered[j])),
                                StrLower(PathName(rendered[i])))

\* a directory is rendered after an ignored sibling was filtered out, next
\* to a file whose name sorts before the directory's name
C11_DirBeforeFile ==
    /\ pc = "tree"
    /\ Dir(<< N_build >>) \in Entries
    /\ << N_build >> \notin RenderedSet
    /\ \E i \in DOMAIN rendered : \E j \in DOMAIN rendered :
          /\ i < j
          /\ Parent(rendered[i]) = Parent(rendered[j])
          /\ KindOf(rendered[i]) = "dir" /\ KindOf(rendered[j]) = "file"
          /\ StrLess(StrLower(PathName(rendered[j])), StrLower(PathName(rendered[i])))


\* what a git command that was run contributes to the diff
Contributed(run) ==
    IF run.outcome.kind = "CalledProcessError" THEN << >> ELSE run.outcome.out

\* the staged diff followed by the unstaged diff
WholeDiff ==
    IF Len(git_runs) = 1 THEN Contributed(git_runs[1])
    ELSE Contributed(git_runs[1]) \o Contributed(git_runs[2])

WhitespaceOnly(s) == \A k \in DOMAIN s : s[k] \in { " ", "\n", "\t" }

\* C12: make_git_prompt asks for the staged diff and, only without --staged,
\* for the unstaged diff; when the two together are empty or whitespace-only,
\* a git diff that exited non-zero counting as empty, the prompt is exactly
\* the text "No Git changes detected.".
C12_NoChangesLiteral ==
    (args.mode = "git" /\ AfterPrompt) =>
        /\ Len(git_runs) = IF args.staged THEN 1 ELSE 2
        /\ git_runs[1].cmd = diff_cmd \o << "--cached" >>
        /\ ~args.staged => git_runs[2].cmd = diff_cmd
        /\ WhitespaceOnly(WholeDiff) =>
               prompt = [kind |-> "literal", text |-> "No Git changes detected."]

\* the staged git diff exited non-zero after printing a diff, the unstaged
\* one printed blank text, and the prompt is the literal
C12_FailedAndBlank ==
    /\ args.mode = "git" /\ pc = "prompt"
    /\ Len(git_runs) = 2
    /\ git_runs[1].outcome.kind = "CalledProcessError"
    /\ git_runs[1].outcome.out = << "d", "\n" >>
    /\ git_runs[2].outcome = [kind |-> "output", out |-> << " ", "\n" >>]
    /\ prompt.kind = "literal"


\* main has ended without an uncaught exception: it returned, or
\* sys.exit(1) ended it
Ended == pc \in { "done", "sys_exit_1" }

\* C13 as stated, for the invocations no uncaught exception ends: every
\* invocation of assist, files or git that has ended has used exactly one
\* output sink, never both and never neither.
C13_AlwaysOneSink ==
    (args.mode \in { "assist", "files", "git" } /\ Ended) =>
        Cardinality(sinks) = 1

\* C13: an invocation of assist, files or git that reaches the output step
\* uses exactly one sink, the clipboard with -c and the output file without,
\* never both; an invocation that ends before the output step (no git
\* executable, an exception leaving main) uses none.
C13_OneSinkWhenOutput ==
    args.mode \in { "assist", "files", "git" } =>
        /\ pc = "done" => sinks = IF args.copy THEN { "clipboard" } ELSE { "file" }
        /\ pc # "done" => sinks = { }

\* `pilot git -c` has copied its prompt to the clipboard and written no file
C13_GitCopied ==
    /\ args.mode = "git" /\ args.copy /\ pc = "done"
    /\ sinks = { "clipboard" }


\* no scan, files or git pipeline has run and no sink was written
NothingRan ==
    /\ tree = << >> /\ rendered = << >> /\ tree_listed = { }
    /\ project_files = << >> /\ walk_listed = { }
    /\ prompt = NoPrompt
    /\ git_runs = << >>
    /\ sinks = { }

\* C14: `pilot help`, alone or followed by assist, files or git, prints the
\* usage, exits with status 0, runs none of the pipelines and writes to no
\* output sink.
C14_HelpExitsZero ==
    args.mode = "help" =>
        /\ exit_status = 0
        /\ NothingRan


\* C15: every path collect_project_files returns is the path of a line of
\* build_tree's output for the same root and ignore lists, and so is each
\* directory above it below the root.
C15_PassesAgree ==
    AfterCollect =>
        \A f \in CollectedSet :
            /\ f \in RenderedSet
            /\ \A n \in 1..(Len(f) - 1) : SubSeq(f, 1, n) \in RenderedSet

====
